---- MODULE Spec2Model ----
(***************************************************************************)
(* Verification model of the IntelliVault document pipeline:               *)
(*   - ChunkingService.chunkText (the window/overlap loop),                *)
(*   - the BullMQ ingestion, chunk-processing and indexing workers,        *)
(*   - the Cosmos chunk store and the Azure AI Search adapter.             *)
(***************************************************************************)
EXTENDS Integers, Sequences, FiniteSets, TLC

(***************************************************************************)
(* Bounds of the model.                                                    *)
(***************************************************************************)
MaxLen == 5          \* longest text handed to chunkText
MaxChunkOpt == 3     \* largest maxTokensPerChunk / overlapTokens tried

MaxDocs == 2         \* documents accepted by the upload handler in one run
MaxFaults == 2       \* external-call failures injected while one document exists
MaxFaultsShared == 1 \* external-call failures injected once two documents exist
MaxUploads == 3      \* upload calls in the upload-only specification
MaxTenantIdLen == 5  \* longest tenantId argument handed to a search method
MaxAdapterCalls == 2 \* write calls made on the search adapter in one run
MaxQACalls == 1      \* question-answering calls made in one run
MaxAnswerLen == 2    \* longest provider answer, in tokens
MaxContext == 2      \* most chunks in an assembled context
MaxTexts == 3        \* longest list of texts handed to an embedding call
MaxBatchSize == 2    \* largest batchSize handed to batchEmbeddings
MaxEmbedCalls == 1   \* embedding calls made in one run
MaxArgs == 3         \* most tokens after the command on the CLI's argv

\* const length = 1536 in fakeEmbedding; the length DocumentChunkSchema asks for
EmbeddingLength == 1536

\* Program constants.
IngestAttempts == 3  \* documentIngestionQueue defaultJobOptions.attempts
ChunkAttempts == 3   \* chunkProcessingQueue defaultJobOptions.attempts
IndexAttempts == 2   \* documentIndexingQueue defaultJobOptions.attempts
maxChunkSize == 1000 \* chunkDocument option of the ingestion worker
overlapSize == 200   \* chunkDocument option of the ingestion worker

Alphabet == {"a", "b"}
Tenants == {"tA", "tB"}
Filenames == {"f1", "f2"}
\* Uploaded byte contents, each with the length of the text extracted from it.
\* "c0" holds no extractable text.
Contents == {"c0", "c1", "c2", "c3"}
TextLength(c) ==
  CASE c = "c0" -> 0
    [] c = "c1" -> 600
    [] c = "c2" -> 1500
    [] c = "c3" -> 2500

Min(a, b) == IF a < b THEN a ELSE b
Max(a, b) == IF a > b THEN a ELSE b

\* ceil(n / d) for d > 0 and any integer n (n <= 0 gives a value <= 0).
CeilDiv(n, d) == IF n <= 0 THEN 0 - ((0 - n) \div d) ELSE (n + d - 1) \div d

TextsUpTo(n) == UNION {[1..k -> Alphabet] : k \in 0..n}

VARIABLES
  ctext,      \* chunkText: the text argument
  copts,      \* chunkText: the merged options {maxTokensPerChunk, overlapTokens}
  cstart,     \* chunkText: local `start`
  cchunks,    \* chunkText: local `chunks`
  cpc         \* chunkText: "entry", "loop", "done"

VARIABLES
  docs,        \* Document Store: sequence of Document records, id = position
  blobs,       \* Blob storage: blob path -> bytes
  ingestJobs,  \* document-ingestion queue, one job per accepted upload, with
               \* the handler's position and its local chunks.length
  chunkJobs,   \* chunk-processing queue, in order of addBulk
  chunkStore,  \* Cosmos container document_chunks
  joined,      \* per document, the number of chunk jobs the join has seen
  indexJobs,   \* document-indexing queue
  searchIndex, \* the Azure AI Search index: a set of SearchDocuments
  faults,      \* number of external-call failures so far
  uploadLog    \* the upload calls made and the document id each returned

VARIABLES
  scall,       \* the last search call: method, tenantId, k
  sresults,    \* the index entries behind the results it returned
  spc          \* "idle", "done" (results returned), "error" (the call threw)

VARIABLES
  aborted      \* the documents an operator has marked error (abort)

VARIABLES
  acalls       \* the write calls made on AISearchService directly, in order:
               \* method, tenant served, batch, what the service accepted,
               \* and how the call ended

VARIABLES
  qlog         \* the question-answering calls made, in order: the operation,
               \* its arguments and what it returned

VARIABLES
  ecall,       \* the embedding call in progress: op, texts, batchSize, and
               \* whether the provider has failed during it
  ei,          \* batchEmbeddings: local `i`
  eresults,    \* batchEmbeddings: local `results`
  epc,         \* "idle", or "loop" inside batchEmbeddings
  elog,        \* the embedding calls that have ended, with their outcome
  prov         \* the requests the embedding provider has received, in order

VARIABLES
  cli          \* the CLI call: argv, and how run(argv) ended

chunkVars == <<ctext, copts, cstart, cchunks, cpc>>
embedVars == <<ecall, ei, eresults, epc, elog, prov, cli>>
searchVars == <<scall, sresults, spc>>
pipeVars == <<docs, blobs, ingestJobs, chunkJobs, chunkStore, joined,
              indexJobs, searchIndex, faults, uploadLog>>

vars == <<ctext, copts, cstart, cchunks, cpc,
          docs, blobs, ingestJobs, chunkJobs, chunkStore, joined,
          indexJobs, searchIndex, faults, uploadLog,
          scall, sresults, spc, aborted, acalls, qlog, embedVars>>

\* What the actions of one part of the program leave alone.
nonPipeVars == <<chunkVars, searchVars, aborted, acalls, qlog, embedVars>>
nonChunkVars == <<pipeVars, searchVars, aborted, acalls, qlog, embedVars>>
nonSearchVars == <<chunkVars, pipeVars, aborted, acalls, qlog, embedVars>>
nonEmbedVars == <<chunkVars, pipeVars, searchVars, aborted, acalls, qlog>>

(***************************************************************************)
(* ChunkingService.chunkText                                               *)
(***************************************************************************)

\* The options accepted by ChunkingOptionsSchema, within the bounds.
ChunkingOptionsSchema ==
  [maxTokensPerChunk : 1..MaxChunkOpt, overlapTokens : 0..MaxChunkOpt]

\* The contract's precondition: 0 < overlap < maxSize.
ValidOptions(o) ==
  /\ 0 < o.overlapTokens
  /\ o.overlapTokens < o.maxTokensPerChunk

\* Mutant: the slice starts one character late (a 1-based start).
SliceFromNext(text, start, end) == SubSeq(text, start + 2, end)

\* text.slice(start, end) on a 0-based half-open range.
Slice(text, start, end) == SubSeq(text, start + 1, end)

\* Mutant: the window is one character short.
ChunkEndOffByOne(len, start, maxTokens) == Min(len, start + maxTokens - 1)

\* const end = Math.min(text.length, start + maxTokensPerChunk)
ChunkEnd(len, start, maxTokens) == Min(len, start + maxTokens)

\* Mutant: the next window starts where the last one ended (no overlap kept).
NextStartNoOverlap(end, overlap) == end

\* start = Math.max(0, end - overlapTokens)
NextStart(end, overlap) == Max(0, end - overlap)

\* A call of chunkText with any text and any options the schema accepts.
ChunkCall ==
  /\ ctext \in TextsUpTo(MaxLen)
  /\ copts \in ChunkingOptionsSchema
  /\ cstart = 0
  /\ cchunks = <<>>
  /\ cpc = "entry"

\* No call of chunkText in progress.
ChunkIdle ==
  /\ ctext = <<>>
  /\ copts = [maxTokensPerChunk |-> 800, overlapTokens |-> 100]
  /\ cstart = 0
  /\ cchunks = <<>>
  /\ cpc = "idle"

\* if (text.length === 0) return []; const chunks = []; let start = 0;
ChunkEntry ==
  /\ cpc = "entry"
  /\ cpc' = IF Len(ctext) = 0 THEN "done" ELSE "loop"
  /\ cstart' = 0
  /\ cchunks' = <<>>
  /\ UNCHANGED <<ctext, copts>>
  /\ UNCHANGED nonChunkVars

\* One iteration of `while (start < text.length) { ... }`.
ChunkLoop ==
  /\ cpc = "loop"
  /\ Len(cchunks) <= MaxLen
  /\ IF cstart < Len(ctext)
       THEN LET end == ChunkEnd(Len(ctext), cstart, copts.maxTokensPerChunk) IN
            /\ cchunks' = Append(cchunks, Slice(ctext, cstart, end))
            /\ IF end = Len(ctext)
                 THEN cpc' = "done" /\ cstart' = cstart
                 ELSE cpc' = "loop" /\ cstart' = NextStart(end, copts.overlapTokens)
       ELSE cpc' = "done" /\ UNCHANGED <<cstart, cchunks>>
  /\ UNCHANGED <<ctext, copts>>
  /\ UNCHANGED nonChunkVars

RECURSIVE ChunkRangesFrom(_, _, _, _)
\* The windows [start, end) the loop of chunkText emits from `start` on.
ChunkRangesFrom(len, start, maxTokens, overlap) ==
  IF ~(start < len) THEN <<>>
  ELSE LET end == ChunkEnd(len, start, maxTokens) IN
       IF end = len THEN << <<start, end>> >>
       ELSE << <<start, end>> >>
              \o ChunkRangesFrom(len, NextStart(end, overlap), maxTokens, overlap)

\* chunkText on a text of length len, as the list of its windows.
ChunkRanges(len, maxTokens, overlap) ==
  IF len = 0 THEN <<>> ELSE ChunkRangesFrom(len, 0, maxTokens, overlap)

(***************************************************************************)
(* Upload: DocumentService and the upload handler                          *)
(***************************************************************************)

\* crypto.createHash("sha256").update(content).digest("hex"): a digest that
\* depends on the bytes alone.
computeChecksumSha256(content) == <<"sha256", content>>

\* `tenants/${tenantId}/documents/${filename}`
getBlobPath(tenantId, filename) == <<"tenants", tenantId, "documents", filename>>

BlobPaths == {getBlobPath(t, f) : t \in Tenants, f \in Filenames}

\* Mutant: the record keeps a checksum derived from the file name.
BuildDocumentChecksumOfName(id, input, checksumSha256) ==
  [id |-> id, tenant_id |-> input.tenant_id, filename |-> input.filename,
   checksum_sha256 |-> <<"sha256", input.filename>>,
   status |-> "uploaded", chunkCount |-> 0]

\* DocumentService.buildUploadedDocument; id is the fresh crypto.randomUUID().
\* chunkCount = 0 stands for "no chunk count recorded yet".
buildUploadedDocument(id, input, checksumSha256) ==
  [id |-> id, tenant_id |-> input.tenant_id, filename |-> input.filename,
   checksum_sha256 |-> checksumSha256,
   status |-> "uploaded", chunkCount |-> 0]

\* The Documents of a tenant that carry a checksum.
findDuplicate(tenantId, checksum) ==
  {i \in 1..Len(docs) :
     docs[i].tenant_id = tenantId /\ docs[i].checksum_sha256 = checksum}

\* upload(tenantId, file) -> documentId: checksum, duplicate detection by
\* (tenant, checksum), blob put, Document creation, ingest job enqueued.
UploadDocument(t, f, c, maxCalls, maxDocs) ==
  /\ Len(uploadLog) < maxCalls
  /\ faults <= MaxFaultsShared
  /\ LET checksum == computeChecksumSha256(c)
         dup == findDuplicate(t, checksum)
         id == Len(docs) + 1
         input == [tenant_id |-> t, filename |-> f, content |-> c]
     IN IF dup # {}
          THEN /\ uploadLog' = Append(uploadLog,
                     [tenant_id |-> t, content |-> c, checksum |-> checksum,
                      documentId |-> CHOOSE i \in dup : TRUE, status |-> "duplicate"])
               /\ UNCHANGED <<docs, blobs, ingestJobs>>
          ELSE /\ Len(docs) < maxDocs
               /\ blobs' = [blobs EXCEPT ![getBlobPath(t, f)] = c]
               /\ docs' = Append(docs, buildUploadedDocument(id, input, checksum))
               /\ ingestJobs' = Append(ingestJobs,
                     [documentId |-> id, tenantId |-> t, filename |-> f,
                      st |-> "wait", attemptsMade |-> 0, chunksLength |-> 0])
               /\ uploadLog' = Append(uploadLog,
                     [tenant_id |-> t, content |-> c, checksum |-> checksum,
                      documentId |-> id, status |-> "queued"])
  /\ UNCHANGED <<chunkJobs, chunkStore, joined, indexJobs, searchIndex, faults>>
  /\ UNCHANGED nonPipeVars

(***************************************************************************)
(* The queues (BullMQ)                                                     *)
(***************************************************************************)

\* Mutant: a job whose handler threw is retried once only.
JobAfterThrowOneRetry(job, attempts) ==
  LET n == job.attemptsMade + 1 IN
  [job EXCEPT !.attemptsMade = n, !.st = IF n < 2 THEN "wait" ELSE "failed"]

\* Mutant: a job whose handler threw goes back to waiting, uncounted.
JobAfterThrowUncounted(job, attempts) == [job EXCEPT !.st = "wait"]

\* Mutant: the attempt limit is compared one too far.
JobAfterThrowOneMore(job, attempts) ==
  LET n == job.attemptsMade + 1 IN
  [job EXCEPT !.attemptsMade = n, !.st = IF n <= attempts THEN "wait" ELSE "failed"]

\* A job whose handler threw: retried (after its backoff delay) while fewer
\* than `attempts` attempts were made, otherwise moved to the failed set.
JobAfterThrow(job, attempts) ==
  LET n == job.attemptsMade + 1 IN
  [job EXCEPT !.attemptsMade = n, !.st = IF n < attempts THEN "wait" ELSE "failed"]

\* A job whose handler returned.
JobAfterReturn(job) ==
  [job EXCEPT !.attemptsMade = @ + 1, !.st = "done"]

Terminated(job) == job.st \in {"done", "failed"}

(***************************************************************************)
(* DocumentService methods used by the workers                             *)
(***************************************************************************)

\* documentService.updateDocumentStatus(documentId, status)
updateDocumentStatus(store, documentId, status) ==
  [store EXCEPT ![documentId].status = status]

\* documentService.updateDocumentMetadata(documentId, {chunkCount, ...})
updateDocumentMetadata(store, documentId, chunkCount) ==
  [store EXCEPT ![documentId].chunkCount = chunkCount]

\* documentService.extractTextContent(buffer, contentType): the text of the
\* bytes, identified by the bytes it came from.
extractTextContent(buffer) == buffer

\* documentService.chunkDocument(text, {maxChunkSize, overlapSize}): the
\* Chunker applied to the text; each chunk is the slice <<text, start, end>>.
chunkDocument(text, maxSize, overlap) ==
  LET r == ChunkRanges(TextLength(text), maxSize, overlap) IN
  [i \in 1..Len(r) |-> <<text, r[i][1], r[i][2]>>]

\* embeddingService.generateEmbedding(text): the vector of a text.
generateEmbedding(text) == <<"vec", text>>

(***************************************************************************)
(* documentIngestionWorker                                                 *)
(***************************************************************************)

\* catch: updateDocumentStatus(documentId, 'error'); throw error
IngestThrow(j) ==
  /\ docs' = updateDocumentStatus(docs, ingestJobs[j].documentId, "error")
  /\ ingestJobs' = [ingestJobs EXCEPT
                      ![j] = JobAfterThrow([@ EXCEPT !.chunksLength = 0],
                                           IngestAttempts)]

\* The job is picked up: updateDocumentStatus(documentId, 'processing').
IngestStart(j) ==
  /\ ingestJobs[j].st = "wait"
  /\ docs' = updateDocumentStatus(docs, ingestJobs[j].documentId, "processing")
  /\ ingestJobs' = [ingestJobs EXCEPT ![j].st = "started"]
  /\ UNCHANGED <<blobs, chunkJobs, chunkStore, joined, indexJobs, searchIndex,
                 faults, uploadLog>>
  /\ UNCHANGED nonPipeVars

\* The chunk jobs of one fan-out, one per chunk, named chunk-<doc>-<index>.
ChunkJobsOf(job, chunks) ==
  [i \in 1..Len(chunks) |->
     [documentId |-> job.documentId, tenantId |-> job.tenantId,
      chunkIndex |-> i - 1, text |-> chunks[i],
      st |-> "wait", attemptsMade |-> 0, broken |-> FALSE]]

\* Download, extract, chunk, and chunkProcessingQueue.addBulk(chunkJobs).
IngestFanOut(j, mayFail) ==
  /\ ingestJobs[j].st = "started"
  /\ LET job == ingestJobs[j]
         documentBuffer == blobs[getBlobPath(job.tenantId, job.filename)]
         extractedText == extractTextContent(documentBuffer)
         chunks == chunkDocument(extractedText, maxChunkSize, overlapSize)
     IN \/ /\ TextLength(extractedText) # 0
           /\ chunkJobs' = chunkJobs \o ChunkJobsOf(job, chunks)
           /\ ingestJobs' = [ingestJobs EXCEPT ![j].st = "fanned",
                                             ![j].chunksLength = Len(chunks)]
           /\ UNCHANGED <<docs, faults>>
        \/ \* if (!extractedText) throw new Error('Failed to extract ...')
           /\ TextLength(extractedText) = 0
           /\ IngestThrow(j)
           /\ UNCHANGED <<chunkJobs, faults>>
        \/ \* the download or the extraction throws
           /\ mayFail
           /\ faults' = faults + 1
           /\ IngestThrow(j)
           /\ UNCHANGED chunkJobs
  /\ UNCHANGED <<blobs, chunkStore, joined, indexJobs, searchIndex, uploadLog>>
  /\ UNCHANGED nonPipeVars

\* updateDocumentMetadata(documentId, {chunkCount}) and return.
IngestRecord(j, mayFail) ==
  /\ ingestJobs[j].st = "fanned"
  /\ LET job == ingestJobs[j]
     IN \/ /\ docs' = updateDocumentMetadata(docs, job.documentId, job.chunksLength)
           /\ ingestJobs' = [ingestJobs EXCEPT ![j] = JobAfterReturn(@)]
           /\ UNCHANGED faults
        \/ \* the metadata update throws
           /\ mayFail
           /\ faults' = faults + 1
           /\ IngestThrow(j)
  /\ UNCHANGED <<blobs, chunkJobs, chunkStore, joined, indexJobs, searchIndex,
                 uploadLog>>
  /\ UNCHANGED nonPipeVars

(***************************************************************************)
(* chunkProcessingWorker                                                   *)
(***************************************************************************)

\* const chunkId = `${documentId}-${chunkIndex}`
ChunkId(documentId, chunkIndex) == <<documentId, chunkIndex>>

\* The chunkDocument object the worker stores.
\* created_at (the time of the execution) is the execution itself: the job's
\* place in the queue and the number of the attempt.
ChunkDocumentOf(k, job, embedding) ==
  [id |-> ChunkId(job.documentId, job.chunkIndex),
   document_id |-> job.documentId, tenant_id |-> job.tenantId,
   chunk_index |-> job.chunkIndex, text |-> job.text, embedding |-> embedding,
   created_at |-> <<k, job.attemptsMade>>]

\* Mutant: the store upserts, replacing whatever holds the key.
CreateConflictNever(store, item) == FALSE

\* Mutant: the id of a chunk record is that of its document alone.
CreateConflictPerDocument(store, item) ==
  \E r \in store : r.document_id = item.document_id

\* container.items.create rejects (409) an id that exists in the partition
\* (document_chunks is partitioned by document_id).
CreateConflict(store, item) ==
  \E r \in store : r.document_id = item.document_id /\ r.id = item.id

\* One execution of the handler on a waiting job. The embedding provider
\* may fail for this attempt only (transient) or for this text for good
\* (permanent: every later attempt of the job fails as well).
ChunkProcess(k, mayFailTransient, mayFailPermanent) ==
  /\ chunkJobs[k].st = "wait"
  /\ LET job == chunkJobs[k]
         chunkDoc == ChunkDocumentOf(k, job, generateEmbedding(job.text))
     IN \/ /\ ~job.broken
           /\ ~CreateConflict(chunkStore, chunkDoc)
           /\ chunkStore' = chunkStore \cup {chunkDoc}
           /\ chunkJobs' = [chunkJobs EXCEPT ![k] = JobAfterReturn(@)]
           /\ UNCHANGED faults
        \/ \* createDocument throws on the existing id
           /\ ~job.broken
           /\ CreateConflict(chunkStore, chunkDoc)
           /\ chunkJobs' = [chunkJobs EXCEPT ![k] = JobAfterThrow(@, ChunkAttempts)]
           /\ UNCHANGED <<chunkStore, faults>>
        \/ \* generateEmbedding throws, this once
           /\ ~job.broken
           /\ mayFailTransient
           /\ faults' = faults + 1
           /\ chunkJobs' = [chunkJobs EXCEPT ![k] = JobAfterThrow(@, ChunkAttempts)]
           /\ UNCHANGED chunkStore
        \/ \* generateEmbedding throws, now and on every later attempt
           /\ ~job.broken
           /\ mayFailPermanent
           /\ faults' = faults + 1
           /\ chunkJobs' = [chunkJobs EXCEPT
                              ![k] = JobAfterThrow([@ EXCEPT !.broken = TRUE],
                                                   ChunkAttempts)]
           /\ UNCHANGED chunkStore
        \/ /\ job.broken
           /\ chunkJobs' = [chunkJobs EXCEPT ![k] = JobAfterThrow(@, ChunkAttempts)]
           /\ UNCHANGED <<chunkStore, faults>>
  /\ UNCHANGED <<docs, blobs, ingestJobs, joined, indexJobs, searchIndex, uploadLog>>
  /\ UNCHANGED nonPipeVars

(***************************************************************************)
(* The join between the chunk jobs and the index job                       *)
(***************************************************************************)

ChunkJobIdsOf(d) == {k \in 1..Len(chunkJobs) : chunkJobs[k].documentId = d}

\* Every chunk job enqueued for d has terminated, and some were not joined.
JoinReady(d) ==
  /\ ChunkJobIdsOf(d) # {}
  /\ \A k \in ChunkJobIdsOf(d) : Terminated(chunkJobs[k])
  /\ joined[d] < Cardinality(ChunkJobIdsOf(d))

\* The Chunk records of d as the payload of an index job.
IndexPayload(d) ==
  {[id |-> r.id, chunkIndex |-> r.chunk_index, text |-> r.text,
    embedding |-> r.embedding] : r \in {x \in chunkStore : x.document_id = d}}

\* Once all chunk jobs of d have terminated: a document in error is left
\* alone; a permanently failed chunk makes the document error; otherwise the
\* index job is enqueued with all Chunk records of d.
Join(d) ==
  /\ d \in 1..Len(docs)
  /\ JoinReady(d)
  /\ joined' = [joined EXCEPT ![d] = Cardinality(ChunkJobIdsOf(d))]
  /\ IF docs[d].status = "error"
       THEN UNCHANGED <<docs, indexJobs>>
       ELSE IF \E k \in ChunkJobIdsOf(d) : chunkJobs[k].st = "failed"
         THEN /\ docs' = updateDocumentStatus(docs, d, "error")
              /\ UNCHANGED indexJobs
         ELSE /\ indexJobs' = Append(indexJobs,
                    [documentId |-> d, tenantId |-> docs[d].tenant_id,
                     chunks |-> IndexPayload(d),
                     st |-> "wait", attemptsMade |-> 0])
              /\ UNCHANGED docs
  /\ UNCHANGED <<blobs, ingestJobs, chunkJobs, chunkStore, searchIndex, faults,
                 uploadLog>>
  /\ UNCHANGED nonPipeVars

\* An operator marks a document error while chunk jobs of it are in flight.
Abort(d) ==
  /\ d \in 1..Len(docs)
  /\ d \notin aborted
  /\ docs[d].status # "error"
  /\ \E k \in ChunkJobIdsOf(d) : ~Terminated(chunkJobs[k])
  /\ docs' = updateDocumentStatus(docs, d, "error")
  /\ aborted' = aborted \cup {d}
  /\ UNCHANGED <<blobs, ingestJobs, chunkJobs, chunkStore, joined, indexJobs,
                 searchIndex, faults, uploadLog>>
  /\ UNCHANGED <<chunkVars, searchVars, acalls, qlog, embedVars>>

(***************************************************************************)
(* documentIndexingWorker and AISearchService.addDocuments                 *)
(***************************************************************************)

\* cosmosRepo.getDocument('documents', id, tenantId): a point read in the
\* tenant's partition, null when there is no such item.
DocumentFound(id, tenantId) ==
  id \in 1..Len(docs) /\ docs[id].tenant_id = tenantId

\* const searchDocuments = chunks.map(chunk => ({...}))
SearchDocumentsOf(job, document) ==
  {[id |-> c.id, tenant_id |-> job.tenantId, document_id |-> job.documentId,
    chunk_index |-> c.chunkIndex, content |-> c.text,
    filename |-> document.filename, embedding |-> c.embedding] : c \in job.chunks}

\* searchClient.uploadDocuments: each accepted document replaces the entry
\* with its key `id`.
uploadDocuments(index, accepted) ==
  {e \in index : \A w \in accepted : w.id # e.id} \cup accepted

\* addDocuments throws when a result has succeeded = false.
AddDocumentsThrows(documents, accepted) == accepted # documents

\* The job is picked up by a worker.
IndexStart(i) ==
  /\ indexJobs[i].st = "wait"
  /\ indexJobs' = [indexJobs EXCEPT ![i].st = "active"]
  /\ UNCHANGED <<docs, blobs, ingestJobs, chunkJobs, chunkStore, joined,
                 searchIndex, faults, uploadLog>>
  /\ UNCHANGED nonPipeVars

\* The handler: getDocument, addDocuments, status ready; on a throw, status
\* error and the job fails this attempt.
IndexRun(i, mayFail) ==
  /\ indexJobs[i].st = "active"
  /\ LET job == indexJobs[i]
         document == docs[job.documentId]
     IN IF ~DocumentFound(job.documentId, job.tenantId)
          THEN \* throw new Error(`Document ${documentId} not found`)
               /\ docs' = IF job.documentId \in 1..Len(docs)
                            THEN updateDocumentStatus(docs, job.documentId, "error")
                            ELSE docs
               /\ indexJobs' = [indexJobs EXCEPT ![i] = JobAfterThrow(@, IndexAttempts)]
               /\ UNCHANGED <<searchIndex, faults>>
          ELSE \E accepted \in SUBSET SearchDocumentsOf(job, document) :
               LET all == SearchDocumentsOf(job, document) IN
               /\ accepted # all => mayFail
               /\ faults' = IF accepted # all THEN faults + 1 ELSE faults
               /\ searchIndex' = uploadDocuments(searchIndex, accepted)
               /\ IF AddDocumentsThrows(all, accepted)
                    THEN /\ docs' = updateDocumentStatus(docs, job.documentId, "error")
                         /\ indexJobs' = [indexJobs EXCEPT
                                            ![i] = JobAfterThrow(@, IndexAttempts)]
                    ELSE /\ docs' = updateDocumentStatus(docs, job.documentId, "ready")
                         /\ indexJobs' = [indexJobs EXCEPT ![i] = JobAfterReturn(@)]
  /\ UNCHANGED <<blobs, ingestJobs, chunkJobs, chunkStore, joined, uploadLog>>
  /\ UNCHANGED nonPipeVars

(***************************************************************************)
(* AISearchService.addDocuments, updateDocuments and deleteDocuments,      *)
(* called directly                                                         *)
(***************************************************************************)

\* How a write call ends: it resolves, it rejects with the error of the
\* service call itself, or it rejects with
\* new Error(`Failed to <verb> ${failed.length} documents`).
WriteOutcome(verb, batch, accepted, callFails) ==
  IF callFails THEN <<"ServiceError">>
  ELSE IF accepted # batch
    THEN <<"Error", "Failed to", verb, Cardinality(batch \ accepted), "documents">>
    ELSE <<"resolved">>

\* searchClient.deleteDocuments: each accepted key is removed.
deleteDocuments(index, acceptedIds) == {e \in index : e.id \notin acceptedIds}

\* One write call on behalf of `tenant`; the service accepts the subset
\* `accepted` of the batch, or the call to the service fails and nothing is
\* written.
AdapterWrite(method, verb, tenant, batch, accepted, callFails, written) ==
  /\ accepted \subseteq batch
  /\ callFails => accepted = {}
  /\ searchIndex' = IF callFails THEN searchIndex ELSE written
  /\ acalls' = Append(acalls,
       [method |-> method, tenant |-> tenant, size |-> Cardinality(batch),
        accepted |-> Cardinality(accepted), callFails |-> callFails,
        outcome |-> WriteOutcome(verb, batch, accepted, callFails)])
  /\ UNCHANGED <<docs, blobs, ingestJobs, chunkJobs, chunkStore, joined,
                 indexJobs, faults, uploadLog>>
  /\ UNCHANGED <<chunkVars, searchVars, aborted, qlog, embedVars>>

\* AISearchService.addDocuments(documents)
addDocuments(tenant, documents, accepted, callFails) ==
  AdapterWrite("addDocuments", "index", tenant, documents, accepted, callFails,
               uploadDocuments(searchIndex, accepted))

\* AISearchService.updateDocuments(documents): mergeOrUploadDocuments with
\* whole documents replaces the entry of each accepted key.
updateDocuments(tenant, documents, accepted, callFails) ==
  AdapterWrite("updateDocuments", "update", tenant, documents, accepted, callFails,
               uploadDocuments(searchIndex, accepted))

\* AISearchService.deleteDocuments(documentIds)
deleteDocumentsByIds(tenant, documentIds, accepted, callFails) ==
  AdapterWrite("deleteDocuments", "delete", tenant, documentIds, accepted,
               callFails, deleteDocuments(searchIndex, accepted))

(***************************************************************************)
(* Embeddings: EmbeddingService.embed, OpenAIService.generateEmbeddings,   *)
(* generateEmbedding and batchEmbeddings                                   *)
(***************************************************************************)

\* text.charCodeAt(i)
CharCode(c) == IF c = "a" THEN 97 ELSE 98

\* hash = (hash * 31 + text.charCodeAt(i)) >>> 0, over the text: an unsigned
\* 32-bit value, kept as its two 16-bit halves <<high, low>>.
RECURSIVE Hash(_)
Hash(text) ==
  IF text = <<>> THEN <<0, 0>>
  ELSE LET h   == Hash(SubSeq(text, 1, Len(text) - 1))
           low == h[2] * 31 + CharCode(text[Len(text)])
       IN <<(h[1] * 31 + low \div 65536) % 65536, low % 65536>>

\* hash % 1000, with 65536 % 1000 = 536
HashMod1000(h) == ((h[1] % 1000) * 536 + h[2]) % 1000

\* fakeEmbedding(text): `length` numbers, arr[i] = ((hash + i) % 1000) / 1000;
\* the vector is given by its length and arr[0] * 1000.
fakeEmbedding(text) ==
  [length |-> EmbeddingLength, seed |-> HashMod1000(Hash(text))]

\* EmbeddingService.embed(texts): texts.map((t) => this.fakeEmbedding(t))
embed(texts) == [i \in 1..Len(texts) |-> fakeEmbedding(texts[i])]

\* The vector the provider's model gives for a text.
ProviderEmbedding(text) ==
  [length |-> EmbeddingLength, seed |-> 1000 + Hash(text)[2]]

\* response.data.map(item => item.embedding) for a request the provider
\* serves: one item per input, in the order of the input.
generateEmbeddings(input) ==
  [i \in 1..Len(input) |-> ProviderEmbedding(input[i])]

\* The mutant of BatchSlice below leaves the last text of a batch out.
BatchSliceShort(texts, i, batchSize) ==
  SubSeq(texts, i + 1, Min(i + batchSize, Len(texts)) - 1)

\* texts.slice(i, i + batchSize), i counted from 0
BatchSlice(texts, i, batchSize) ==
  SubSeq(texts, i + 1, Min(i + batchSize, Len(texts)))

\* The mutant of BatchFailure below goes on with the next batch.
BatchFailureSkipped(i, batchSize) == [pc |-> "loop", i |-> i + batchSize]

\* generateEmbeddings rethrows the provider's error and batchEmbeddings has
\* no catch: the call ends there.
BatchFailure(i, batchSize) == [pc |-> "idle", i |-> i]

\* No embedding call made or in progress.
NoEmbedCall == [op |-> "none", texts |-> <<>>, batchSize |-> 0, failed |-> FALSE]
EmbedIdle ==
  /\ ecall = NoEmbedCall
  /\ ei = 0
  /\ eresults = <<>>
  /\ epc = "idle"
  /\ elog = <<>>
  /\ prov = <<>>
  /\ cli = [pc |-> "idle", argv |-> <<>>, threw |-> FALSE, keys |-> {}]

\* An embedding call has ended, by returning `result` or by throwing.
EmbedCallEnds(call, threw, result) ==
  elog' = Append(elog, [op |-> call.op, texts |-> call.texts,
                        batchSize |-> call.batchSize, failed |-> call.failed,
                        threw |-> threw, result |-> result])

\* EmbeddingService.embed(texts), a whole call
EmbedCall(texts) ==
  /\ epc = "idle"
  /\ EmbedCallEnds([op |-> "embed", texts |-> texts, batchSize |-> 0,
                    failed |-> FALSE], FALSE, embed(texts))
  /\ UNCHANGED <<ecall, ei, eresults, epc, prov, cli>>
  /\ UNCHANGED nonEmbedVars

\* OpenAIService.generateEmbedding(text), a whole call: one request to the
\* provider with the text as input; embeddings[0] is returned.
GenerateEmbeddingCall(text, fails) ==
  /\ epc = "idle"
  /\ prov' = Append(prov, <<text>>)
  /\ EmbedCallEnds([op |-> "generateEmbedding", texts |-> <<text>>,
                    batchSize |-> 0, failed |-> fails], fails,
                   IF fails THEN <<>> ELSE <<generateEmbeddings(<<text>>)[1]>>)
  /\ UNCHANGED <<ecall, ei, eresults, epc, cli>>
  /\ UNCHANGED nonEmbedVars

\* OpenAIService.batchEmbeddings(texts, batchSize): entry
BatchEmbeddingsEntry(texts, batchSize) ==
  /\ epc = "idle"
  /\ ecall' = [op |-> "batchEmbeddings", texts |-> texts,
               batchSize |-> batchSize, failed |-> FALSE]
  /\ ei' = 0
  /\ eresults' = <<>>
  /\ epc' = "loop"
  /\ UNCHANGED <<elog, prov, cli>>
  /\ UNCHANGED nonEmbedVars

\* One pass of the loop: the batch is sent to the provider and its vectors
\* are pushed onto results, or the provider fails.
BatchEmbeddingsLoop(fails) ==
  /\ epc = "loop"
  /\ ei < Len(ecall.texts)
  /\ LET batch == BatchSlice(ecall.texts, ei, ecall.batchSize) IN
     /\ prov' = Append(prov, batch)
     /\ IF fails
          THEN LET after == BatchFailure(ei, ecall.batchSize) IN
               /\ epc' = after.pc
               /\ ei' = after.i
               /\ eresults' = eresults
               /\ ecall' = [ecall EXCEPT !.failed = TRUE]
               /\ IF after.pc = "idle"
                    THEN EmbedCallEnds(ecall', TRUE, <<>>)
                    ELSE elog' = elog
          ELSE /\ eresults' = eresults \o generateEmbeddings(batch)
               /\ ei' = ei + ecall.batchSize
               /\ UNCHANGED <<ecall, epc, elog>>
  /\ cli' = cli
  /\ UNCHANGED nonEmbedVars

\* The loop is over: return results.
BatchEmbeddingsReturn ==
  /\ epc = "loop"
  /\ ei >= Len(ecall.texts)
  /\ EmbedCallEnds(ecall, FALSE, eresults)
  /\ epc' = "idle"
  /\ UNCHANGED <<ecall, ei, eresults, prov, cli>>
  /\ UNCHANGED nonEmbedVars

(***************************************************************************)
(* The CLI: parseArgs and run                                              *)
(***************************************************************************)

\* A tenant id that is a UUID, and the tokens of a command line.
SampleUuid == "11111111-1111-4111-8111-111111111111"
ArgTokens == {"--tenant", "--q", "--with-sources", "t1", SampleUuid}

\* token.startsWith("--")
IsOption(token) == token \in {"--tenant", "--q", "--with-sources"}

\* parseArgs(argv) from position i on: an option followed by a token that is
\* not an option takes it as its value, any other option is set to true, and
\* a token that is not an option is skipped. A later setting of a key replaces
\* an earlier one. The value true is written "true", which is what String()
\* makes of it.
RECURSIVE parseArgs(_, _, _)
parseArgs(argv, i, args) ==
  IF i > Len(argv) THEN args
  ELSE IF IsOption(argv[i])
    THEN IF i + 1 <= Len(argv) /\ ~IsOption(argv[i + 1])
           THEN parseArgs(argv, i + 2,
                          [k \in DOMAIN args \cup {argv[i]} |->
                             IF k = argv[i] THEN argv[i + 1] ELSE args[k]])
           ELSE parseArgs(argv, i + 1,
                          [k \in DOMAIN args \cup {argv[i]} |->
                             IF k = argv[i] THEN "true" ELSE args[k]])
    ELSE parseArgs(argv, i + 1, args)

\* String(args[key] || "")
ArgString(args, key) == IF key \in DOMAIN args THEN args[key] ELSE ""

\* z.string().uuid()
IsUuid(str) == str = SampleUuid

\* DocumentSchema.parse(doc) throws for the document buildUploadedDocument
\* makes of the CLI's input: every field but tenant_id is well-formed.
DocumentSchemaRejects(tenant) == ~IsUuid(tenant)

\* run(argv): how the call ends, and the top-level keys of the JSON it
\* resolves to.
run(argv) ==
  LET cmd  == IF argv = <<>> THEN "" ELSE argv[1]
      args == parseArgs(argv, 2, <<>>)
  IN CASE cmd = "up" -> [threw |-> FALSE, keys |-> {"services", "status"}]
       [] cmd = "upload" ->
            IF DocumentSchemaRejects(ArgString(args, "--tenant"))
              THEN [threw |-> TRUE, keys |-> {}]
              ELSE [threw |-> FALSE, keys |-> {"uploaded"}]
       [] cmd = "search" -> [threw |-> FALSE, keys |-> {"results"}]
       [] cmd = "summarize" -> [threw |-> FALSE, keys |-> {"summary"}]
       [] cmd = "ask" -> [threw |-> FALSE, keys |-> {"answer", "sources"}]
       [] cmd = "graph" -> [threw |-> FALSE, keys |-> {"nodes", "edges"}]
       [] OTHER -> [threw |-> FALSE, keys |-> {"error"}]

\* One call of run.
CliRun(argv) ==
  /\ cli.pc = "idle"
  /\ cli' = [pc |-> "done", argv |-> argv,
             threw |-> run(argv).threw, keys |-> run(argv).keys]
  /\ UNCHANGED <<ecall, ei, eresults, epc, elog, prov>>
  /\ UNCHANGED nonEmbedVars

(***************************************************************************)
(* Question answering: OpenAIService.answerQuestion, QAService.answer and  *)
(* SearchService.semanticSearch                                            *)
(***************************************************************************)

\* The provider's answer is a sequence of tokens: plain text, or a marker
\* that /\[\d+\]/ matches.
Markers == {"[1]", "[2]", "[3]"}
AnswerTokens == {"text"} \cup Markers

\* The number inside a marker.
MarkerNumber(m) == CASE m = "[1]" -> 1 [] m = "[2]" -> 2 [] m = "[3]" -> 3

\* The chunks a context may be assembled from, as (documentId, chunkIndex).
ContextChunks == {<<1, 0>>, <<1, 1>>, <<2, 0>>}

\* The contexts: up to MaxContext different chunks, in retrieval order.
Contexts ==
  {ctx \in UNION {[1..n -> ContextChunks] : n \in 0..MaxContext} :
     \A i, j \in 1..Len(ctx) : ctx[i] = ctx[j] => i = j}

\* The provider's message content: absent, or up to MaxAnswerLen tokens.
NoContent == [isNull |-> TRUE, text |-> <<>>]
ProviderContents ==
  {NoContent} \cup
  {[isNull |-> FALSE, text |-> t] :
     t \in UNION {[1..n -> AnswerTokens] : n \in 0..MaxAnswerLen}}

\* answer.match(/\[\d+\]/g): the markers of the answer in order, or null.
RECURSIVE MatchMarkers(_)
MatchMarkers(answer) ==
  IF answer = <<>> THEN <<>>
  ELSE IF Head(answer) \in Markers
    THEN <<Head(answer)>> \o MatchMarkers(Tail(answer))
    ELSE MatchMarkers(Tail(answer))

\* [...new Set(matches)]: each marker once, in the order of first appearance.
RECURSIVE Distinct(_)
Distinct(matches) ==
  IF matches = <<>> THEN <<>>
  ELSE LET rest == Distinct(SubSeq(matches, 1, Len(matches) - 1))
           last == matches[Len(matches)]
       IN IF \E i \in 1..Len(rest) : rest[i] = last
            THEN rest ELSE Append(rest, last)

\* The result of answerQuestion for the provider's content: the answer is
\* the content or '', and citations is set when citations are asked for and
\* the answer holds a marker.
AnswerResult(content, includeCitations) ==
  LET answer  == IF content.isNull THEN <<>> ELSE content.text
      matches == MatchMarkers(answer)
  IN IF includeCitations /\ matches # <<>>
       THEN [answer |-> answer, hasCitations |-> TRUE,
             citations |-> Distinct(matches)]
       ELSE [answer |-> answer, hasCitations |-> FALSE, citations |-> <<>>]

\* OpenAIService.answerQuestion(question, context, includeCitations); when
\* chatCompletion throws, the error is logged and rethrown.
answerQuestion(question, context, includeCitations, content, throws) ==
  /\ qlog' = Append(qlog,
       [op |-> "answerQuestion", question |-> question, context |-> context,
        includeCitations |-> includeCitations,
        providerFailed |-> throws,
        threw |-> throws,
        result |-> IF throws
                     THEN [answer |-> <<>>, hasCitations |-> FALSE,
                           citations |-> <<>>]
                     ELSE AnswerResult(content, includeCitations)])
  /\ UNCHANGED <<chunkVars, pipeVars, searchVars, aborted, acalls, embedVars>>

\* SearchService.semanticSearch(query, k)
semanticSearch(query, k) == IF query = "" \/ k <= 0 THEN <<>> ELSE <<>>

\* The mutant of QAAnswerOf below answers with a text.
QAAnswerText(question) ==
  [answer |-> <<"text">>, hasCitations |-> TRUE, citations |-> <<>>]

\* The value QAService.answer resolves with.
QAAnswerOf(question) ==
  [answer |-> <<>>, hasCitations |-> TRUE, citations |-> <<>>]

\* QAService.answer(question); the context of the call is what retrieval
\* gives for the question.
answer(question, k) ==
  /\ qlog' = Append(qlog,
       [op |-> "answer", question |-> question,
        context |-> semanticSearch(question, k),
        includeCitations |-> TRUE, providerFailed |-> FALSE, threw |-> FALSE,
        result |-> QAAnswerOf(question)])
  /\ UNCHANGED <<chunkVars, pipeVars, searchVars, aborted, acalls, embedVars>>

(***************************************************************************)
(* AISearchService.search, vectorSearch and hybridSearch                   *)
(***************************************************************************)

\* A string is a sequence of tokens: a whole tenant id, the quote character,
\* or one of the words of the filter language.
TenantIdTokens == {"tA", "'", "or", "tenant_id", "ne"}

TenantIdArgs == UNION {[1..n -> TenantIdTokens] : n \in 0..MaxTenantIdLen}

\* filter: `tenant_id eq '${tenantId}'`
FilterOf(tenantId) == <<"tenant_id", "eq", "'">> \o tenantId \o <<"'">>

RECURSIVE ReadLiteral(_, _, _)
\* The string literal whose opening quote precedes position i: it runs to the
\* first quote that is not doubled; a doubled quote stands for one quote.
ReadLiteral(toks, i, acc) ==
  IF i > Len(toks) THEN [ok |-> FALSE, value |-> acc, next |-> i]
  ELSE IF toks[i] = "'"
    THEN IF i + 1 <= Len(toks) /\ toks[i + 1] = "'"
           THEN ReadLiteral(toks, i + 2, Append(acc, "'"))
           ELSE [ok |-> TRUE, value |-> acc, next |-> i + 1]
    ELSE ReadLiteral(toks, i + 1, Append(acc, toks[i]))

\* tenant_id (eq | ne) '<literal>'
ParseComparison(toks, i) ==
  IF /\ i + 2 <= Len(toks)
     /\ toks[i] = "tenant_id"
     /\ toks[i + 1] \in {"eq", "ne"}
     /\ toks[i + 2] = "'"
    THEN LET lit == ReadLiteral(toks, i + 3, <<>>) IN
         [ok |-> lit.ok, op |-> toks[i + 1], value |-> lit.value, next |-> lit.next]
    ELSE [ok |-> FALSE, op |-> "eq", value |-> <<>>, next |-> i]

RECURSIVE ParseFilter(_, _)
\* comparison (or comparison)*: the clauses of the filter, or not a filter.
ParseFilter(toks, i) ==
  LET cmp == ParseComparison(toks, i) IN
  IF ~cmp.ok THEN [ok |-> FALSE, clauses |-> {}]
  ELSE IF cmp.next > Len(toks)
    THEN [ok |-> TRUE, clauses |-> {[op |-> cmp.op, value |-> cmp.value]}]
  ELSE IF toks[cmp.next] = "or"
    THEN LET rest == ParseFilter(toks, cmp.next + 1) IN
         [ok |-> rest.ok,
          clauses |-> rest.clauses \cup {[op |-> cmp.op, value |-> cmp.value]}]
  ELSE [ok |-> FALSE, clauses |-> {}]

\* The entries of the index a parsed filter lets through.
FilterMatches(index, clauses) ==
  {e \in index :
     \E c \in clauses :
        IF c.op = "eq" THEN <<e.tenant_id>> = c.value
                       ELSE <<e.tenant_id>> # c.value}

\* The mutant of SearchCatch below swallows the error: the call ends as a
\* search that found nothing.
SearchCatchReturnsEmpty == "done"

\* The catch block of search, vectorSearch and hybridSearch logs the error
\* and rethrows it: the call ends in error.
SearchCatch == "error"

\* searchClient.search(text, {filter, top | kNearestNeighborsCount, ...}):
\* the service is unreachable, or it rejects a filter it cannot parse;
\* otherwise it returns k of the entries the filter lets through, whichever
\* the ranking prefers.
SearchClientSearch(method, tenantId, k) ==
  LET parsed == ParseFilter(FilterOf(tenantId), 1) IN
  \E unreachable \in BOOLEAN :
    /\ scall' = [method |-> method, tenantId |-> tenantId, k |-> k,
                 failed |-> (unreachable \/ ~parsed.ok)]
    /\ IF unreachable \/ ~parsed.ok
         THEN spc' = SearchCatch /\ sresults' = {}
         ELSE LET matching == FilterMatches(searchIndex, parsed.clauses) IN
              /\ spc' = "done"
              /\ \E R \in SUBSET matching :
                   /\ Cardinality(R) = Min(k, Cardinality(matching))
                   /\ sresults' = R
    /\ UNCHANGED nonSearchVars

\* AISearchService.search(query, tenantId, k, useSemantic)
search(tenantId, k) == SearchClientSearch("search", tenantId, k)

\* AISearchService.vectorSearch(embedding, tenantId, k)
vectorSearch(tenantId, k) == SearchClientSearch("vectorSearch", tenantId, k)

\* AISearchService.hybridSearch(query, embedding, tenantId, k)
hybridSearch(tenantId, k) == SearchClientSearch("hybridSearch", tenantId, k)

\* No search call made.
SearchIdle ==
  /\ scall = [method |-> "none", tenantId |-> <<>>, k |-> 0, failed |-> FALSE]
  /\ sresults = {}
  /\ spc = "idle"

\* The index entry of chunk n of document d of tenant t.
SampleEntry(t, d, n) ==
  [id |-> ChunkId(d, n), tenant_id |-> t, document_id |-> d, chunk_index |-> n,
   content |-> <<"c2", 0, 1000>>, filename |-> "f1",
   embedding |-> generateEmbedding(<<"c2", 0, 1000>>)]

\* Index entries of two tenants, as the index worker writes them.
SampleEntries == {SampleEntry("tA", 1, 0), SampleEntry("tB", 2, 0)}

(***************************************************************************)
(* Specifications                                                          *)
(***************************************************************************)

\* Nothing uploaded, the queues and the chunk store empty.
StoresInit ==
  /\ docs = <<>>
  /\ blobs = [p \in BlobPaths |-> "none"]
  /\ ingestJobs = <<>>
  /\ chunkJobs = <<>>
  /\ chunkStore = {}
  /\ joined = [d \in 1..MaxDocs |-> 0]
  /\ indexJobs = <<>>
  /\ faults = 0
  /\ uploadLog = <<>>

PipeInit ==
  /\ StoresInit /\ searchIndex = {} /\ aborted = {} /\ acalls = <<>>
  /\ qlog = <<>> /\ EmbedIdle

Init == PipeInit /\ ChunkIdle /\ SearchIdle

\* An external call may fail now: the failure budget is not used up.
FaultAllowed ==
  faults < (IF Len(docs) <= 1 THEN MaxFaults ELSE MaxFaultsShared)

Upload == \E t \in Tenants, c \in {"c0", "c1", "c2"} :
            UploadDocument(t, "f1", c, MaxDocs, MaxDocs)
IngestStartStep == \E j \in 1..Len(ingestJobs) : IngestStart(j)
IngestFanOutStep == \E j \in 1..Len(ingestJobs) : IngestFanOut(j, FaultAllowed)
IngestRecordStep == \E j \in 1..Len(ingestJobs) : IngestRecord(j, FaultAllowed)
ChunkStep == \E k \in 1..Len(chunkJobs) :
               ChunkProcess(k, FaultAllowed, FaultAllowed)
JoinStep == \E d \in 1..Len(docs) : Join(d)
IndexStartStep == \E i \in 1..Len(indexJobs) : IndexStart(i)
IndexRunStep == \E i \in 1..Len(indexJobs) : IndexRun(i, FaultAllowed)

Next ==
  \/ Upload
  \/ IngestStartStep
  \/ IngestFanOutStep
  \/ IngestRecordStep
  \/ ChunkStep
  \/ JoinStep
  \/ IndexStartStep
  \/ IndexRunStep

Spec == Init /\ [][Next]_vars

ChunkInit == PipeInit /\ ChunkCall /\ SearchIdle

ChunkNext == ChunkEntry \/ ChunkLoop

SpecChunk == ChunkInit /\ [][ChunkNext]_vars

\* The scenario of one three-chunk document: the embedding provider may fail
\* on the job of the second chunk only, and on fewer attempts than the job
\* has; no other call fails.
UploadC4 == \E t \in Tenants : UploadDocument(t, "f1", "c3", 1, 1)
IngestFanOutC4 == \E j \in 1..Len(ingestJobs) : IngestFanOut(j, FALSE)
IngestRecordC4 == \E j \in 1..Len(ingestJobs) : IngestRecord(j, FALSE)
ChunkStepC4 == \E k \in 1..Len(chunkJobs) :
                 ChunkProcess(k, /\ chunkJobs[k].chunkIndex = 1
                                 /\ chunkJobs[k].attemptsMade < ChunkAttempts - 1,
                              FALSE)
IndexRunC4 == \E i \in 1..Len(indexJobs) : IndexRun(i, FALSE)

NextC4 ==
  \/ UploadC4
  \/ IngestStartStep
  \/ IngestFanOutC4
  \/ IngestRecordC4
  \/ ChunkStepC4
  \/ JoinStep
  \/ IndexStartStep
  \/ IndexRunC4

\* The workers keep taking jobs while there are any: a step that stays
\* possible is eventually taken.
SpecC4 == Init /\ [][NextC4]_vars /\ WF_vars(NextC4)

\* One document in the pipeline, with an operator who may abort it.
UploadOne == \E t \in Tenants, c \in {"c1", "c2"} : UploadDocument(t, "f1", c, 1, 1)
AbortStep == \E d \in 1..Len(docs) : Abort(d)

NextAbort ==
  \/ UploadOne
  \/ IngestStartStep
  \/ IngestFanOutStep
  \/ IngestRecordStep
  \/ ChunkStep
  \/ JoinStep
  \/ IndexStartStep
  \/ IndexRunStep
  \/ AbortStep

SpecAbort == Init /\ [][NextAbort]_vars

\* One document in the pipeline, every worker scheduled fairly: a job that
\* can be taken is taken in the end. No call fails for ever except the
\* embedding of a chunk whose job then uses up its attempts.
NextLive ==
  \/ UploadOne
  \/ IngestStartStep
  \/ IngestFanOutStep
  \/ IngestRecordStep
  \/ ChunkStep
  \/ JoinStep
  \/ IndexStartStep
  \/ IndexRunStep

SpecLive ==
  /\ Init /\ [][NextLive]_vars
  /\ WF_vars(IngestStartStep) /\ WF_vars(IngestFanOutStep)
  /\ WF_vars(IngestRecordStep) /\ WF_vars(ChunkStep) /\ WF_vars(JoinStep)
  /\ WF_vars(IndexStartStep) /\ WF_vars(IndexRunStep)

\* The documents a caller serving tenant t may pass: entries of t under any
\* id, also an id that is in use for another tenant.
DocumentsOf(t) == {SampleEntry(t, 1, 0), SampleEntry(t, 2, 0)}

EntryIds == {e.id : e \in SampleEntries}

\* Write calls made on the adapter directly, on any contents of the index.
AdapterInit ==
  /\ StoresInit
  /\ searchIndex \in SUBSET SampleEntries
  /\ aborted = {}
  /\ acalls = <<>>
  /\ qlog = <<>>
  /\ EmbedIdle
  /\ ChunkIdle
  /\ SearchIdle

AddDocumentsStep ==
  /\ Len(acalls) < MaxAdapterCalls
  /\ \E t \in Tenants : \E batch \in SUBSET DocumentsOf(t) \ {{}} :
       \E accepted \in SUBSET batch, callFails \in BOOLEAN :
          addDocuments(t, batch, accepted, callFails)
UpdateDocumentsStep ==
  /\ Len(acalls) < MaxAdapterCalls
  /\ \E t \in Tenants : \E batch \in SUBSET DocumentsOf(t) \ {{}} :
       \E accepted \in SUBSET batch, callFails \in BOOLEAN :
          updateDocuments(t, batch, accepted, callFails)
DeleteDocumentsStep ==
  /\ Len(acalls) < MaxAdapterCalls
  /\ \E t \in Tenants : \E ids \in SUBSET EntryIds \ {{}} :
       \E accepted \in SUBSET ids, callFails \in BOOLEAN :
          deleteDocumentsByIds(t, ids, accepted, callFails)

AdapterNext == AddDocumentsStep \/ UpdateDocumentsStep \/ DeleteDocumentsStep

SpecAdapter == AdapterInit /\ [][AdapterNext]_vars

Questions == {"", "q1", "q2"}

AnswerQuestionStep ==
  /\ Len(qlog) < MaxQACalls
  /\ \E context \in Contexts, includeCitations \in BOOLEAN,
        content \in ProviderContents :
       answerQuestion("q1", context, includeCitations, content, FALSE)
AnswerQuestionFails ==
  /\ Len(qlog) < MaxQACalls
  /\ \E context \in Contexts, includeCitations \in BOOLEAN :
       answerQuestion("q1", context, includeCitations, NoContent, TRUE)
AskStep ==
  /\ Len(qlog) < MaxQACalls
  /\ \E question \in Questions, k \in {0, 10} : answer(question, k)

QANext == AnswerQuestionStep \/ AnswerQuestionFails \/ AskStep

\* Question-answering calls alone.
SpecQA == Init /\ [][QANext]_vars

\* The texts handed to the embedding calls, and the lists of them.
EmbedTexts == {<<"a">>, <<"a", "b">>}
TextLists == UNION {[1..n -> EmbedTexts] : n \in 0..MaxTexts}

EmbedStep ==
  Len(elog) < MaxEmbedCalls /\ \E texts \in TextLists : EmbedCall(texts)
GenerateEmbeddingStep ==
  /\ Len(elog) < MaxEmbedCalls
  /\ \E text \in EmbedTexts, fails \in BOOLEAN : GenerateEmbeddingCall(text, fails)
BatchEmbeddingsStep ==
  /\ Len(elog) < MaxEmbedCalls
  /\ \E texts \in TextLists, batchSize \in 1..MaxBatchSize :
       BatchEmbeddingsEntry(texts, batchSize)
BatchLoopStep == \E fails \in BOOLEAN : BatchEmbeddingsLoop(fails)

EmbedNext ==
  \/ EmbedStep
  \/ GenerateEmbeddingStep
  \/ BatchEmbeddingsStep
  \/ BatchLoopStep
  \/ BatchEmbeddingsReturn

\* Embedding calls alone, one after the other.
SpecEmbed == Init /\ [][EmbedNext]_vars

Commands == {"up", "upload", "search", "summarize", "ask", "graph", "status"}
ArgLists == UNION {[1..n -> ArgTokens] : n \in 0..MaxArgs}

CliStep == \E cmd \in Commands, rest \in ArgLists : CliRun(<<cmd>> \o rest)

\* One call of the CLI.
SpecCli == Init /\ [][CliStep]_vars

\* Upload calls alone, over both file names and every content.
UploadOnly == \E t \in Tenants, f \in Filenames, c \in Contents :
                UploadDocument(t, f, c, MaxUploads, MaxUploads)

SpecUpload == Init /\ [][UploadOnly]_vars

\* Search calls on any contents of the index, with any tenantId argument.
SearchInit ==
  /\ StoresInit
  /\ searchIndex \in SUBSET SampleEntries
  /\ aborted = {}
  /\ acalls = <<>>
  /\ qlog = <<>>
  /\ EmbedIdle
  /\ ChunkIdle
  /\ SearchIdle

\* One call is made in a run.
SearchStep ==
  spc = "idle" /\ \E t \in TenantIdArgs, k \in 1..2 : search(t, k)
VectorSearchStep ==
  spc = "idle" /\ \E t \in TenantIdArgs, k \in 1..2 : vectorSearch(t, k)
HybridSearchStep ==
  spc = "idle" /\ \E t \in TenantIdArgs, k \in 1..2 : hybridSearch(t, k)

SearchNext == SearchStep \/ VectorSearchStep \/ HybridSearchStep

SpecSearch == SearchInit /\ [][SearchNext]_vars

\* Query-time calls: searches with the tenant ids of the two tenants, and
\* question-answering calls, on any contents of the index.
QuerySearchStep ==
  /\ spc = "idle"
  /\ \E t \in Tenants, k \in 1..2 :
       search(<<t>>, k) \/ vectorSearch(<<t>>, k) \/ hybridSearch(<<t>>, k)

\* answerQuestion with a plain answer of the provider, or a failing provider.
QueryAnswerStep ==
  /\ Len(qlog) < MaxQACalls
  /\ \E context \in Contexts, fails \in BOOLEAN :
       answerQuestion("q1", context, TRUE,
                      [isNull |-> FALSE, text |-> <<"text">>], fails)

QueryNext == QuerySearchStep \/ QueryAnswerStep \/ AskStep

SpecQuery == SearchInit /\ [][QueryNext]_vars

(***************************************************************************)
(* Claims about the pipeline                                               *)
(***************************************************************************)

DocIds == 1..Len(docs)

ChunkRecordsOf(d) == {r \in chunkStore : r.document_id = d}

IndexEntriesOf(d) == {e \in searchIndex : e.document_id = d}

\* The SearchEntry that projects a Chunk record of document d.
ProjectionOf(r, d) ==
  [id |-> r.id, tenant_id |-> r.tenant_id, document_id |-> r.document_id,
   chunk_index |-> r.chunk_index, content |-> r.text,
   filename |-> docs[d].filename, embedding |-> r.embedding]

\* C1: no index job of a document is running while a chunk job of that
\* document is still waiting, active or awaiting a retry.
C1_IndexAfterChunkJobs ==
  \A i \in 1..Len(indexJobs) :
    indexJobs[i].st = "active" =>
      \A k \in ChunkJobIdsOf(indexJobs[i].documentId) : Terminated(chunkJobs[k])

\* C2: a ready document has, for every chunkIndex below its recorded chunk
\* count, an index entry that is the projection of the Chunk record stored
\* for that index.
C2_ReadyIsIndexed ==
  \A d \in DocIds :
    docs[d].status = "ready" =>
      \A n \in 0..(docs[d].chunkCount - 1) :
        \E r \in ChunkRecordsOf(d) :
          /\ r.chunk_index = n
          /\ ProjectionOf(r, d) \in searchIndex

\* C3: when an index job begins, its document is in error or the chunk store
\* holds at least as many Chunk records for it as the recorded chunk count.
C3_JoinCorrectness ==
  [][\A i \in 1..Len(indexJobs) :
       (indexJobs[i].st = "wait" /\ indexJobs'[i].st = "active") =>
         LET d == indexJobs[i].documentId IN
         \/ docs[d].status = "error"
         \/ Cardinality(ChunkRecordsOf(d)) >= docs[d].chunkCount]_vars

\* C4: with one chunk job failing transiently on fewer attempts than it has,
\* and fair workers, the three-chunk document ends ready with exactly three
\* index entries, one per chunk.
C4_TransientFailureReachesReady ==
  <>[](/\ Len(docs) = 1
       /\ docs[1].status = "ready"
       /\ {e.chunk_index : e \in IndexEntriesOf(1)} = 0..2
       /\ Cardinality(IndexEntriesOf(1)) = 3)

\* The job of the second chunk failed twice and succeeded on its third
\* attempt; the document is ready with three entries.
C4_Witness ==
  /\ Len(docs) = 1
  /\ docs[1].status = "ready"
  /\ Cardinality(IndexEntriesOf(1)) = 3
  /\ faults = 2
  /\ \E k \in ChunkJobIdsOf(1) :
       /\ chunkJobs[k].chunkIndex = 1
       /\ chunkJobs[k].attemptsMade = 3
       /\ chunkJobs[k].st = "done"

PermanentlyFailedChunk(d) ==
  \E k \in ChunkJobIdsOf(d) : chunkJobs[k].st = "failed"

\* C5: once a chunk job of a document has failed permanently, no step makes
\* the document ready, none adds an index entry for it, and none removes a
\* Chunk record of it.
C5_FailedChunkNeverIndexed ==
  [][\A d \in DocIds :
       PermanentlyFailedChunk(d) =>
         /\ (docs'[d].status = "ready" => docs[d].status = "ready")
         /\ IndexEntriesOf(d)' \subseteq IndexEntriesOf(d)
         /\ ChunkRecordsOf(d) \subseteq ChunkRecordsOf(d)']_vars

\* The text the ingest stage extracts for d now.
CurrentText(d) ==
  extractTextContent(blobs[getBlobPath(docs[d].tenant_id, docs[d].filename)])

\* Every chunk job fanned out for d so far came from the text d has now.
TextUnchanged(d) ==
  \A k \in ChunkJobIdsOf(d) : chunkJobs[k].text[1] = CurrentText(d)

\* The chunk indexes of one run of the ingest stage on the text of d.
OneRunKeys(d) ==
  0..(Len(chunkDocument(CurrentText(d), maxChunkSize, overlapSize)) - 1)

ChunkKeysOf(d) == {r.chunk_index : r \in ChunkRecordsOf(d)}

\* C6: the chunk store never holds two records with one (documentId,
\* chunkIndex); and once it holds the records of one run of the ingest stage
\* on a document, running the stage again on the unchanged text creates no
\* record and changes none.
C6_IdempotentReingestion ==
  [][\A d \in DocIds :
       /\ \A r1, r2 \in ChunkRecordsOf(d)' :
            r1.chunk_index = r2.chunk_index => r1 = r2
       /\ (TextUnchanged(d) /\ TextUnchanged(d)' /\ ChunkKeysOf(d) = OneRunKeys(d))
            => ChunkRecordsOf(d)' = ChunkRecordsOf(d)]_vars

\* The ingest stage ran twice on an unchanged two-chunk text: four chunk jobs
\* have terminated, the second run's on the conflict, and the store holds
\* the two records of the first run.
C6_Witness ==
  \E d \in DocIds :
    /\ TextUnchanged(d)
    /\ Cardinality(OneRunKeys(d)) = 2
    /\ Cardinality(ChunkJobIdsOf(d)) = 4
    /\ \A k \in ChunkJobIdsOf(d) : Terminated(chunkJobs[k])
    /\ ChunkKeysOf(d) = OneRunKeys(d)
    /\ Cardinality(ChunkRecordsOf(d)) = 2

\* C7: a search call made with tenant A returns only entries whose
\* tenant_id is A.
C7_TenantIsolation ==
  spc = "done" => \A e \in sresults : <<e.tenant_id>> = scall.tenantId

IngestText(j) ==
  extractTextContent(blobs[getBlobPath(ingestJobs[j].tenantId,
                                       ingestJobs[j].filename)])

\* C12: an attempt of an ingest job that fails because no text can be
\* extracted (no injected call failure in the step) is the job's last: the
\* job is failed, not waiting for a retry that would set the document
\* processing again.
C12_NoRetryOnExtractionFailure ==
  [][\A j \in 1..Len(ingestJobs) :
       (/\ ingestJobs[j].st = "started"
        /\ TextLength(IngestText(j)) = 0
        /\ ingestJobs'[j].attemptsMade = ingestJobs[j].attemptsMade + 1
        /\ faults' = faults)
         => ingestJobs'[j].st = "failed"]_vars

\* The jobs of one queue never exceed its attempts, and a failed job has
\* used them all.
WithinAttempts(queue, attempts) ==
  \A i \in 1..Len(queue) :
    /\ queue[i].attemptsMade <= attempts
    /\ queue[i].st = "failed" => queue[i].attemptsMade = attempts
    /\ (queue[i].attemptsMade > 0 /\ ~Terminated(queue[i]))
         => queue[i].attemptsMade < attempts

\* C13: no job is executed more often than its queue's attempts (3 ingest,
\* 3 chunk, 2 index); a step executes a job at most once more; a job that
\* has completed or has failed after its last attempt never changes again.
C13_AttemptsBounded ==
  [][/\ WithinAttempts(ingestJobs', IngestAttempts)
     /\ WithinAttempts(chunkJobs', ChunkAttempts)
     /\ WithinAttempts(indexJobs', IndexAttempts)
     /\ \A i \in 1..Len(ingestJobs) :
          /\ Terminated(ingestJobs[i]) => ingestJobs'[i] = ingestJobs[i]
          /\ ingestJobs'[i].attemptsMade - ingestJobs[i].attemptsMade \in {0, 1}
     /\ \A i \in 1..Len(chunkJobs) :
          /\ Terminated(chunkJobs[i]) => chunkJobs'[i] = chunkJobs[i]
          /\ chunkJobs'[i].attemptsMade - chunkJobs[i].attemptsMade \in {0, 1}
     /\ \A i \in 1..Len(indexJobs) :
          /\ Terminated(indexJobs[i]) => indexJobs'[i] = indexJobs[i]
          /\ indexJobs'[i].attemptsMade - indexJobs[i].attemptsMade \in {0, 1}]_vars

\* An ingest job and a chunk job that failed on their third attempt.
C13_Witness ==
  /\ \E j \in 1..Len(ingestJobs) :
       ingestJobs[j].st = "failed" /\ ingestJobs[j].attemptsMade = IngestAttempts
  /\ \E k \in 1..Len(chunkJobs) :
       chunkJobs[k].st = "failed" /\ chunkJobs[k].attemptsMade = ChunkAttempts

\* The chunk store holds the record of chunk job k's (documentId, chunkIndex).
RecordStored(job) ==
  \E r \in chunkStore :
    r.document_id = job.documentId /\ r.chunk_index = job.chunkIndex

\* A chunk job that completed has its Chunk record in the store; and a
\* waiting chunk job whose embedding call can succeed and whose record is not
\* yet stored can run and complete now, whatever the state of the other chunk
\* jobs of its document.
SiblingsNotBlocked ==
  \A k \in 1..Len(chunkJobs) :
    /\ chunkJobs[k].st = "done" => RecordStored(chunkJobs[k])
    /\ (chunkJobs[k].st = "wait" /\ ~chunkJobs[k].broken
          /\ ~RecordStored(chunkJobs[k]))
         => ENABLED (ChunkProcess(k, FALSE, FALSE) /\ chunkJobs'[k].st = "done")

\* A step that changes a chunk job changes no other chunk job; and an
\* attempt of a chunk job fails only on a failure of its own embedding call
\* or on a record already stored for its own chunkIndex.
SiblingsNotFailed ==
  \A k \in 1..Len(chunkJobs) :
    chunkJobs'[k] # chunkJobs[k] =>
      /\ \A o \in 1..Len(chunkJobs) : o # k => chunkJobs'[o] = chunkJobs[o]
      /\ chunkJobs'[k].st # "done" =>
           \/ faults' = faults + 1
           \/ chunkJobs[k].broken
           \/ RecordStored(chunkJobs[k])

\* C14: the failure of one chunk job neither blocks nor fails the chunk jobs
\* of the other chunkIndexes of its document: every such job whose embedding
\* call succeeds can run at any time and writes its Chunk record.
C14_SiblingIndependence ==
  []SiblingsNotBlocked /\ [][SiblingsNotFailed]_vars

\* A chunk job of a document failed for good while the job of another
\* chunkIndex of that document completed on its first attempt.
C14_Witness ==
  \E k, o \in 1..Len(chunkJobs) :
    /\ chunkJobs[k].documentId = chunkJobs[o].documentId
    /\ chunkJobs[k].chunkIndex # chunkJobs[o].chunkIndex
    /\ chunkJobs[k].st = "failed" /\ chunkJobs[k].broken
    /\ chunkJobs[o].st = "done" /\ chunkJobs[o].attemptsMade = 1
    /\ RecordStored(chunkJobs[o])
    /\ ~RecordStored(chunkJobs[k])

\* C15: once a document was aborted while its chunk jobs were in flight, no
\* step adds or replaces an index entry of it, and none makes it ready.
C15_AbortedNeverIndexed ==
  [][\A d \in aborted :
       /\ docs'[d].status # "ready"
       /\ IndexEntriesOf(d)' \subseteq IndexEntriesOf(d)]_vars

\* The status changes of the Document lifecycle.
LifecycleSteps ==
  {<<"uploaded", "processing">>, <<"processing", "ready">>,
   <<"uploaded", "error">>, <<"processing", "error">>}

\* C16: every change of a document's status is uploaded -> processing,
\* processing -> ready, or uploaded/processing -> error: nothing leaves
\* ready, and processing is entered from uploaded only.
C16_Lifecycle ==
  [][\A d \in DocIds :
       docs'[d].status # docs[d].status =>
         <<docs[d].status, docs'[d].status>> \in LifecycleSteps]_vars

\* Some entries of the batch were accepted and some rejected.
PartialFailure(call) ==
  ~call.callFails /\ 0 < call.accepted /\ call.accepted < call.size

\* Every entry was rejected, or the call to the service failed.
TotalFailure(call) == call.callFails \/ call.accepted = 0

\* C17: what addDocuments / updateDocuments hand to their caller after a
\* partial failure differs from what they hand over after a total failure.
C17_PartialFailureDistinct ==
  \A a, b \in 1..Len(acalls) :
    (/\ acalls[a].method \in {"addDocuments", "updateDocuments"}
     /\ acalls[a].method = acalls[b].method
     /\ PartialFailure(acalls[a])
     /\ TotalFailure(acalls[b]))
      => acalls[a].outcome # acalls[b].outcome

\* C18: a write call made on behalf of a tenant leaves every index entry of
\* every other tenant in place and unchanged.
C18_WritesTenantScoped ==
  [][Len(acalls') > Len(acalls) =>
       \A e \in searchIndex :
         e.tenant_id # acalls'[Len(acalls')].tenant => e \in searchIndex']_vars

\* The chunk a citation refers to is in the context of the call: a marker
\* [n] refers to the n-th chunk of the context, a citation of QAService to
\* the pair (documentId, chunkIndex) it names.
CitationInContext(call, c) ==
  IF call.op = "answerQuestion"
    THEN MarkerNumber(c) \in 1..Len(call.context)
    ELSE \E i \in 1..Len(call.context) :
           call.context[i] = <<c.documentId, c.chunkIndex>>

\* C19: every citation of a returned result refers to a chunk of the context
\* assembled for the call; a marker of the provider's output that refers to
\* no chunk of the context is not among the citations.
C19_CitationSoundness ==
  \A n \in 1..Len(qlog) :
    ~qlog[n].threw =>
      \A i \in 1..Len(qlog[n].result.citations) :
        CitationInContext(qlog[n], qlog[n].result.citations[i])

\* An answer that is no answer text: the empty text.
NoGroundedAnswer(result) == result.answer = <<>>

VectorOf(op, text) ==
  IF op = "embed" THEN fakeEmbedding(text) ELSE ProviderEmbedding(text)

\* C22: embed and batchEmbeddings return one vector per input text, the i-th
\* vector being the one of the i-th text, all of the length EmbeddingLength.
C22_OneVectorPerText ==
  \A n \in 1..Len(elog) :
    (elog[n].op \in {"embed", "batchEmbeddings"} /\ ~elog[n].threw) =>
      /\ Len(elog[n].result) = Len(elog[n].texts)
      /\ \A i \in 1..Len(elog[n].result) :
           /\ elog[n].result[i] = VectorOf(elog[n].op, elog[n].texts[i])
           /\ elog[n].result[i].length = EmbeddingLength

\* batchEmbeddings has returned for a list of different texts that is longer
\* than batchSize and not a multiple of it.
C22_Witness ==
  \E n \in 1..Len(elog) :
    /\ elog[n].op = "batchEmbeddings" /\ ~elog[n].threw
    /\ Len(elog[n].texts) > elog[n].batchSize
    /\ Len(elog[n].texts) % elog[n].batchSize # 0
    /\ elog[n].texts[1] # elog[n].texts[Len(elog[n].texts)]
    /\ Len(elog[n].result) = Len(elog[n].texts)

\* The number of times a text was sent to the provider.
RECURSIVE Occurrences(_, _)
Occurrences(text, requests) ==
  IF requests = <<>> THEN 0
  ELSE Cardinality({i \in 1..Len(Head(requests)) : Head(requests)[i] = text})
       + Occurrences(text, Tail(requests))

\* C23: no text is sent to the embedding provider more than once.
C23_ProviderOncePerText ==
  \A text \in EmbedTexts : Occurrences(text, prov) <= 1

\* C24: a call of batchEmbeddings during which the provider failed has
\* thrown, a call that returned has a vector for every text, and the step in
\* which the provider fails leaves the vectors of the earlier batches as
\* they were.
C24_BatchFailureReported ==
  /\ [](\A n \in 1..Len(elog) :
          elog[n].op = "batchEmbeddings" =>
            /\ elog[n].failed => elog[n].threw
            /\ ~elog[n].threw => Len(elog[n].result) = Len(elog[n].texts))
  /\ [][(ecall'.failed /\ ~ecall.failed) => eresults' = eresults]_vars

\* The provider failed on a later batch of a batchEmbeddings call, after the
\* vectors of an earlier batch were obtained, and the call has thrown.
C24_Witness ==
  /\ epc = "idle"
  /\ ecall.op = "batchEmbeddings" /\ ecall.failed
  /\ eresults # <<>>
  /\ elog # <<>> /\ elog[Len(elog)].threw /\ elog[Len(elog)].texts = ecall.texts

\* The top-level keys of the JSON of each command.
KeysOfCommand(cmd) ==
  CASE cmd = "up" -> {"services", "status"}
    [] cmd = "upload" -> {"uploaded"}
    [] cmd = "search" -> {"results"}
    [] cmd = "summarize" -> {"summary"}
    [] cmd = "ask" -> {"answer", "sources"}
    [] cmd = "graph" -> {"nodes", "edges"}
    [] OTHER -> {"error"}

\* C25: run(argv) does not throw, whatever the arguments, and resolves to
\* JSON with the top-level keys of its command.
C25_CliAlwaysJson ==
  cli.pc = "done" => ~cli.threw /\ cli.keys = KeysOfCommand(cli.argv[1])

\* C26: a chunk job executed, with no failure of the embedding provider, for
\* a (documentId, chunkIndex) whose record exists completes, and the store
\* then holds exactly one record for that key.
C26_RerunOverwrites ==
  [][\A k \in 1..Len(chunkJobs) :
       (/\ chunkJobs[k].st = "wait"
        /\ ~chunkJobs[k].broken
        /\ RecordStored(chunkJobs[k])
        /\ chunkJobs'[k].attemptsMade = chunkJobs[k].attemptsMade + 1
        /\ faults' = faults)
         => /\ chunkJobs'[k].st = "done"
            /\ Cardinality({r \in chunkStore' :
                              /\ r.document_id = chunkJobs[k].documentId
                              /\ r.chunk_index = chunkJobs[k].chunkIndex}) = 1]_vars

UploadedContent(d) ==
  LET u == CHOOSE n \in 1..Len(uploadLog) :
             uploadLog[n].documentId = d /\ uploadLog[n].status = "queued"
  IN uploadLog[u].content

\* C28: every chunk job of a document carries text extracted from the bytes
\* that were uploaded for that document.
C28_TextOfOwnUpload ==
  \A k \in 1..Len(chunkJobs) :
    chunkJobs[k].text[1] =
      extractTextContent(UploadedContent(chunkJobs[k].documentId))

\* C29: a call of addDocuments that throws leaves the search index as it
\* was.
C29_FailedAddWritesNothing ==
  [][(/\ Len(acalls') > Len(acalls)
      /\ acalls'[Len(acalls')].method = "addDocuments"
      /\ acalls'[Len(acalls')].outcome # <<"resolved">>)
       => searchIndex' = searchIndex]_vars

(***************************************************************************)
(* Claims about chunkText                                                  *)
(***************************************************************************)

RECURSIVE DropOverlapConcat(_, _, _)
\* chunks[i..] joined, each with its leading `overlap` characters removed.
DropOverlapConcat(chunks, i, overlap) ==
  IF i > Len(chunks) THEN <<>>
  ELSE SubSeq(chunks[i], overlap + 1, Len(chunks[i]))
         \o DropOverlapConcat(chunks, i + 1, overlap)

\* The first chunk whole, then every later chunk without its leading overlap.
Reassemble(chunks, overlap) ==
  IF Len(chunks) = 0 THEN <<>>
  ELSE chunks[1] \o DropOverlapConcat(chunks, 2, overlap)

\* C9: for valid options (0 < overlap < maxSize), the chunks returned by
\* chunkText, concatenated in order with the leading `overlap` characters of
\* every chunk but the first removed, are exactly the original text.
C9_RoundTrip ==
  (cpc = "done" /\ ValidOptions(copts))
    => Reassemble(cchunks, copts.overlapTokens) = ctext

\* A finished call on valid options that produced several windows, the last
\* shorter than maxTokensPerChunk, from a text of different characters.
C9_Witness ==
  /\ cpc = "done"
  /\ ValidOptions(copts)
  /\ Len(cchunks) >= 2
  /\ Len(cchunks[Len(cchunks)]) < copts.maxTokensPerChunk
  /\ \E i, j \in 1..Len(ctext) : ctext[i] # ctext[j]

\* C10 as stated: for every non-empty text and valid options the chunk count
\* is ceil((len - overlap) / (maxSize - overlap)).
C10_CountAsStated ==
  (cpc = "done" /\ ValidOptions(copts) /\ Len(ctext) >= 1)
    => Len(cchunks) =
         CeilDiv(Len(ctext) - copts.overlapTokens,
                 copts.maxTokensPerChunk - copts.overlapTokens)

\* C10 (amended): for valid options, a text longer than `overlap` yields
\* ceil((len - overlap) / (maxSize - overlap)) chunks, and a non-empty text
\* of at most `overlap` characters yields exactly one chunk.
C10_Count ==
  (cpc = "done" /\ ValidOptions(copts) /\ Len(ctext) >= 1)
    => Len(cchunks) =
         IF Len(ctext) > copts.overlapTokens
           THEN CeilDiv(Len(ctext) - copts.overlapTokens,
                        copts.maxTokensPerChunk - copts.overlapTokens)
           ELSE 1

\* A finished call on a text longer than the overlap with several windows.
C10_Witness ==
  /\ cpc = "done"
  /\ ValidOptions(copts)
  /\ Len(ctext) > copts.maxTokensPerChunk
  /\ Len(cchunks) >= 2

\* C11: a finished call of chunkText returns no chunk for the empty text, the
\* whole text as its only chunk for a non-empty text of at most
\* maxTokensPerChunk characters, and for a longer text a last chunk that
\* runs to the end of the text; every chunk is non-empty and at most
\* maxTokensPerChunk long.
C11_EdgeCases ==
  cpc = "done" =>
    /\ Len(ctext) = 0 => cchunks = <<>>
    /\ (0 < Len(ctext) /\ Len(ctext) <= copts.maxTokensPerChunk)
         => cchunks = <<ctext>>
    /\ Len(ctext) > copts.maxTokensPerChunk =>
         /\ Len(cchunks) >= 2
         /\ LET last == cchunks[Len(cchunks)] IN
            last = SubSeq(ctext, Len(ctext) - Len(last) + 1, Len(ctext))
    /\ \A i \in 1..Len(cchunks) :
         0 < Len(cchunks[i]) /\ Len(cchunks[i]) <= copts.maxTokensPerChunk

\* A finished call on a text longer than maxTokensPerChunk whose last window
\* is shorter than maxTokensPerChunk.
C11_Witness ==
  /\ cpc = "done"
  /\ Len(ctext) > copts.maxTokensPerChunk
  /\ Len(cchunks[Len(cchunks)]) < copts.maxTokensPerChunk
  /\ Len(cchunks[1]) = copts.maxTokensPerChunk

\* C30: every pass of the loop of chunkText that goes on to another pass
\* moves the start position forward, for every option pair the schema
\* accepts.
C30_StartIncreases ==
  [][(cpc = "loop" /\ cpc' = "loop" /\ cchunks' # cchunks)
       => cstart' > cstart]_vars

====
